---- MODULE Spec2Model ----
(***************************************************************************)
(* rtc::TestClient (webrtc/rtc_base/testclient.cc): a test harness that    *)
(* turns the asynchronous packet notifications of an AsyncPacketSocket     *)
(* into blocking, timeout-bounded checks.                                  *)
(*                                                                         *)
(* Execution contexts:                                                     *)
(*   - the consumer thread, which calls the public methods; its position   *)
(*     inside a method is pc;                                              *)
(*   - the notification producer: the socket's SignalReadPacket fires      *)
(*     OnPacket either on another thread (position ppc) or synchronously   *)
(*     on the consumer thread while AdvanceTime pumps messages.            *)
(* The socket itself is not thread safe: its state changes only while the  *)
(* consumer pumps messages (comment at testclient.cc:66-68).               *)
(***************************************************************************)
EXTENDS Integers, Sequences, FiniteSets, TLC

(***************************************************************************)
(* Bounds of the model.                                                    *)
(***************************************************************************)
\* OnPacket notifications per behaviour.
MaxPackets == 2
\* Largest timeout_ms a test passes to NextPacket.
MaxTimeout == 2
\* Largest clock movement of one real-clock AdvanceTime (ProcessMessages(1)).
MaxRealStep == 2
\* OnReadyToSend notifications per behaviour.
MaxReady == 1

(***************************************************************************)
(* Program constants.                                                      *)
(***************************************************************************)
\* The "unset" timestamp (testclient.cc:31, :107, :110).
Unset == -1
\* TestClient::kTimeoutMs and TestClient::kNoPacketTimeoutMs are set in
\* testclient.h; only their roles matter here (kTimeoutMs is the wait of
\* CheckNextPacket and CheckConnState, kNoPacketTimeoutMs the shorter wait
\* of CheckNoPacket), so they are scaled down to a few clock units.
kTimeoutMs == 2
kNoPacketTimeoutMs == 1

\* Last clock value a call may reach: a call starts only if it fits.
MaxClock == kTimeoutMs + MaxTimeout + MaxRealStep

(***************************************************************************)
(* Input domains.                                                          *)
(***************************************************************************)
\* Byte strings a test compares against: different sizes and contents.
Payloads == {<<1>>, <<2>>, <<1, 2>>}
\* Datagrams the socket delivers, as <<source address, payload, capture
\* timestamp>>: two addresses, every payload, timestamps that rise, fall
\* and are unset (-1).
Datagrams == {<<"a1", <<1>>, 0>>, <<"a2", <<1>>, 1>>, <<"a1", <<2>>, 1>>,
              <<"a2", <<2>>, -1>>, <<"a1", <<1, 2>>, -1>>, <<"a2", <<1, 2>>, 0>>}
\* Arguments of CheckTimestamp (an int64_t: values below Unset included).
Timestamps == {-2, -1, 0, 1, 2}
\* AsyncPacketSocket::State values a test waits for.
SocketStates == {"STATE_CONNECTING", "STATE_CONNECTED", "STATE_CLOSED"}
\* What a socket call returns: a byte count, an option or error value, or
\* the negative error code.
SocketResults == {-1, 0, 1, 2}
\* Destinations of SendTo.
Dests == {"a1", "a2"}
\* Socket::Option values of SetOption.
SocketOptions == {"OPT_DSCP", "OPT_RCVBUF"}
\* timeout_ms arguments of NextPacket: negative, zero and positive.
Timeouts == (-1)..MaxTimeout

VARIABLES
    \* --- program state ---
    fake_clock_,             \* TRUE iff a FakeClock was given (testclient.cc:29)
    clock,                   \* rtc::TimeMillis(), real or simulated
    socket_state,            \* socket_->GetState()
    packets_,                \* the inbox: sequence of Packet (guarded by crit_)
    prev_packet_timestamp_,  \* the timestamp watermark
    ready_to_send_count_,    \* OnReadyToSend notifications seen
    crit_,                   \* owner of the lock crit_: "free", "consumer", "producer"
    \* --- consumer thread ---
    pc,                      \* position of the consumer
    op,                      \* the public method the consumer is in
    args,                    \* arguments of that method
    end,                     \* local `end` of NextPacket / CheckConnState
    packet,                  \* local unique_ptr<Packet>: <<>> is nullptr
    res,                     \* bool result of a Check* method
    ret,                     \* int result of Send, SendTo, GetError, SetOption
    addr_out,                \* *addr out-parameter of CheckNextPacket: <<>> unwritten
    \* --- producer thread ---
    ppc,                     \* position of a producer thread inside OnPacket
    \* --- observations (history, not program state) ---
    arrivals,                \* number of OnPacket notifications so far
    returned,                \* seq tags of the packets dequeued so far, in order
    call,                    \* what happened during the current call
    ts_hist,                 \* arguments of the last two CheckTimestamp calls
    max_accepted             \* <<m>>: largest timestamp a check accepted; <<>> none

progVars == <<fake_clock_, clock, socket_state, packets_, prev_packet_timestamp_,
              ready_to_send_count_, crit_>>
consVars == <<pc, op, args, end, packet, res, ret, addr_out>>
histVars == <<arrivals, returned, call, ts_hist, max_accepted>>
vars == <<progVars, consVars, ppc, histVars>>

(***************************************************************************)
(* Helpers.                                                                *)
(***************************************************************************)
\* rtc::TimeAfter(elapsed): the time `elapsed` ms from now.
TimeAfter(elapsed) == clock + elapsed

\* rtc::TimeUntil(later): ms from now until `later` (negative once passed).
TimeUntil(later) == later - clock

\* memcmp(a, b, n): 0 iff the first n bytes agree, else the sign of the
\* first difference.
Memcmp(a, b, n) ==
    IF \A i \in 1..n : a[i] = b[i] THEN 0
    ELSE LET d == CHOOSE i \in 1..n : a[i] # b[i] /\ \A j \in 1..(i-1) : a[j] = b[j]
         IN  IF a[d] < b[d] THEN -1 ELSE 1

\* Mutant of Packet: the copy stops one byte short.
PacketShortCopy(a, b, s, packet_time, seq) ==
    [addr |-> a, buf |-> SubSeq(b, 1, s - 1), size |-> s,
     packet_time |-> packet_time, seq |-> seq]

\* TestClient::Packet::Packet(a, b, s, packet_time): copies s bytes of b.
\* seq is the arrival tag of the notification, carried for observation only.
Packet(a, b, s, packet_time, seq) ==
    [addr |-> a, buf |-> SubSeq(b, 1, s), size |-> s,
     packet_time |-> packet_time, seq |-> seq]

\* Mutant of PushBack: the new packet is put at the front.
PushFront(q, p) == <<p>> \o q

\* packets_.push_back(p)
PushBack(q, p) == Append(q, p)

\* packets_.front()
Front(q) == q[1]

\* Mutant of EraseBegin: packets_.clear().
EraseAll(q) == <<>>

\* packets_.erase(packets_.begin())
EraseBegin(q) == Tail(q)

NoArgs == [timeout_ms |-> 0, buf |-> <<>>, size |-> 0, want_addr |-> FALSE,
           state |-> "STATE_CLOSED", timestamp |-> 0, dest |-> "none",
           opt |-> "none", value |-> 0]

\* Observations of one call, reset when a call starts and when it returns.
\*   advances       calls of AdvanceTime made by the call
\*   dequeues       final dequeue attempts made by the call
\*   emptyAtCall    the inbox was empty when the call started
\*   observed       a loop iteration of NextPacket saw a non-empty inbox
\*   advAtObs       value of advances when that happened
\*   arrivalsAtCall value of arrivals when the call started
\*   arrivalsAtDeq  value of arrivals at the final dequeue
\*   headAtDeq      <<head of the inbox>> at the final dequeue, <<>> if empty
\*   delivered      <<first OnPacket input of the call before its dequeue>>
\*   lastPoll       socket state seen by the last poll of CheckConnState
\*   prevAtCall     watermark when the call started
\*   sockLog        the calls the method made on the socket, in order
\*   sockResults    what the socket returned to each of them
\*   stateAtCall    socket state when the call started
NoCall == [advances |-> 0, dequeues |-> 0, emptyAtCall |-> TRUE,
           observed |-> FALSE, advAtObs |-> 0, arrivalsAtCall |-> 0,
           arrivalsAtDeq |-> 0, headAtDeq |-> <<>>, delivered |-> <<>>,
           lastPoll |-> "none", prevAtCall |-> Unset,
           stateAtCall |-> "STATE_CLOSED", sockLog |-> <<>>, sockResults |-> <<>>]

NewCall == [NoCall EXCEPT !.emptyAtCall = (packets_ = <<>>),
                          !.arrivalsAtCall = arrivals,
                          !.prevAtCall = prev_packet_timestamp_,
                          !.stateAtCall = socket_state]

\* A call is started only if its whole wait fits below MaxClock.
Fits(timeout_ms) == clock + timeout_ms + MaxRealStep <= MaxClock

(***************************************************************************)
(* TestClient::TestClient: the state after construction.                   *)
(***************************************************************************)
Init ==
    /\ fake_clock_ \in BOOLEAN
    /\ clock = 0
    /\ socket_state = "STATE_CONNECTING"
    /\ packets_ = <<>>
    /\ prev_packet_timestamp_ = Unset
    /\ ready_to_send_count_ = 0
    /\ crit_ = "free"
    /\ pc = "idle"
    /\ op = "none"
    /\ args = NoArgs
    /\ end = 0
    /\ packet = <<>>
    /\ res = FALSE
    /\ ret = 0
    /\ addr_out = <<>>
    /\ ppc = "idle"
    /\ arrivals = 0
    /\ returned = <<>>
    /\ call = NoCall
    /\ ts_hist = <<>>
    /\ max_accepted = <<>>


(***************************************************************************)
(* TestClient::CheckTimestamp (testclient.cc:105-117) as a function of the *)
(* watermark and the packet timestamp.                                     *)
(***************************************************************************)
\* Mutant of CheckTimestampResult: a timestamp equal to the watermark fails.
CheckTimestampResultStrict(prev, packet_timestamp) ==
    LET res1 == IF packet_timestamp = Unset THEN FALSE ELSE TRUE
        res2 == IF prev # Unset
                THEN (IF packet_timestamp <= prev THEN FALSE ELSE res1)
                ELSE res1
    IN  res2

\* Lines 106-114 and 116: the value returned.
CheckTimestampResult(prev, packet_timestamp) ==
    LET res1 == IF packet_timestamp = Unset THEN FALSE ELSE TRUE
        res2 == IF prev # Unset
                THEN (IF packet_timestamp < prev THEN FALSE ELSE res1)
                ELSE res1
    IN  res2

\* Line 115: the watermark after the call.
CheckTimestampWatermark(prev, packet_timestamp) == packet_timestamp

\* The effect of one CheckTimestamp(t) call on the watermark, with the
\* observations of it.
CheckTimestampEffect(t) ==
    /\ prev_packet_timestamp_' = CheckTimestampWatermark(prev_packet_timestamp_, t)
    /\ ts_hist' = IF ts_hist = <<>> THEN <<t>> ELSE <<ts_hist[Len(ts_hist)], t>>
    /\ max_accepted' =
         IF CheckTimestampResult(prev_packet_timestamp_, t)
         THEN (IF max_accepted = <<>> \/ max_accepted[1] < t THEN <<t>> ELSE max_accepted)
         ELSE max_accepted

(***************************************************************************)
(* TestClient::NextPacket (testclient.cc:58-90), entered from NextPacket   *)
(* itself, CheckNextPacket (line 95) or CheckNoPacket (line 130).          *)
(***************************************************************************)
\* Line 70: int64_t end = TimeAfter(timeout_ms).
EnterNextPacket(o, a) ==
    /\ pc = "idle"
    /\ Fits(a.timeout_ms)
    /\ pc' = "np_loop"
    /\ op' = o
    /\ args' = a
    /\ end' = TimeAfter(a.timeout_ms)
    /\ packet' = <<>>
    /\ res' = FALSE
    /\ ret' = 0
    /\ addr_out' = <<>>
    /\ call' = NewCall
    /\ UNCHANGED <<progVars, ppc, arrivals, returned, ts_hist, max_accepted>>

\* A test calls NextPacket(timeout_ms).
CallNextPacket ==
    \E t \in Timeouts : EnterNextPacket("NextPacket", [NoArgs EXCEPT !.timeout_ms = t])

\* Line 130: CheckNoPacket calls NextPacket(kNoPacketTimeoutMs).
CallCheckNoPacket ==
    EnterNextPacket("CheckNoPacket", [NoArgs EXCEPT !.timeout_ms = kNoPacketTimeoutMs])

\* Line 95: CheckNextPacket(buf, size, addr) calls NextPacket(kTimeoutMs).
CallCheckNextPacket ==
    \E b \in Payloads, w \in BOOLEAN :
        EnterNextPacket("CheckNextPacket",
                        [NoArgs EXCEPT !.timeout_ms = kTimeoutMs, !.buf = b,
                                       !.size = Len(b), !.want_addr = w])

\* Mutant of TimeRemains: the deadline itself still counts as time left.
TimeRemainsInclusive(e) == TimeUntil(e) >= 0

\* Line 71: the loop condition.
TimeRemains(e) == TimeUntil(e) > 0

\* Line 74: the emptiness test of the loop.
InboxNonEmpty(q) == Len(q) # 0

\* Mutant of NP_While: when the time is up the call returns empty at once,
\* without the final dequeue.
NP_WhileGivesUp ==
    /\ pc = "np_loop"
    /\ pc' = IF TimeRemains(end) THEN "np_lock1"
             ELSE IF op = "NextPacket" THEN "done" ELSE "np_ret"
    /\ UNCHANGED <<progVars, op, args, end, packet, res, ret, addr_out, ppc, histVars>>

\* Line 71: while (TimeUntil(end) > 0).
NP_While ==
    /\ pc = "np_loop"
    /\ pc' = IF TimeRemains(end) THEN "np_lock1" ELSE "np_lock2"
    /\ UNCHANGED <<progVars, op, args, end, packet, res, ret, addr_out, ppc, histVars>>

\* Line 73: CritScope cs(&crit_) inside the loop.
NP_Lock1 ==
    /\ pc = "np_lock1"
    /\ crit_ = "free"
    /\ crit_' = "consumer"
    /\ pc' = "np_check"
    /\ UNCHANGED <<fake_clock_, clock, socket_state, packets_, prev_packet_timestamp_,
                   ready_to_send_count_, op, args, end, packet, res, ret, addr_out, ppc,
                   histVars>>

\* Mutant of NP_Check: the break is missing, the loop always advances time.
NP_CheckNoBreak ==
    /\ pc = "np_check"
    /\ crit_' = "free"
    /\ pc' = "advance"
    /\ call' = [call EXCEPT !.advances = @ + 1,
                             !.observed = @ \/ Len(packets_) # 0,
                             !.advAtObs = IF call.observed THEN @ ELSE call.advances]
    /\ UNCHANGED <<fake_clock_, clock, socket_state, packets_, prev_packet_timestamp_,
                   ready_to_send_count_, op, args, end, packet, res, ret, addr_out, ppc,
                   arrivals, returned, ts_hist, max_accepted>>

\* Mutant of NP_Check: the CritScope spans the loop body, so crit_ is still
\* held when AdvanceTime(1) is called.
NP_CheckKeepsLock ==
    /\ pc = "np_check"
    /\ IF InboxNonEmpty(packets_)
       THEN /\ pc' = "np_lock2"
            /\ crit_' = "free"
            /\ call' = [call EXCEPT !.observed = TRUE, !.advAtObs = call.advances]
       ELSE /\ pc' = "advance"
            /\ crit_' = "consumer"
            /\ call' = [call EXCEPT !.advances = @ + 1]
    /\ UNCHANGED <<fake_clock_, clock, socket_state, packets_, prev_packet_timestamp_,
                   ready_to_send_count_, op, args, end, packet, res, ret, addr_out, ppc,
                   arrivals, returned, ts_hist, max_accepted>>

\* Lines 74-78: break if a packet is there, else leave the scope and call
\* AdvanceTime(1). The CritScope ends on both paths.
NP_Check ==
    /\ pc = "np_check"
    /\ crit_' = "free"
    /\ IF InboxNonEmpty(packets_)
       THEN /\ pc' = "np_lock2"
            /\ call' = [call EXCEPT !.observed = TRUE, !.advAtObs = call.advances]
       ELSE /\ pc' = "advance"
            /\ call' = [call EXCEPT !.advances = @ + 1]
    /\ UNCHANGED <<fake_clock_, clock, socket_state, packets_, prev_packet_timestamp_,
                   ready_to_send_count_, op, args, end, packet, res, ret, addr_out, ppc,
                   arrivals, returned, ts_hist, max_accepted>>

\* Mutant of NP_Lock2: the final dequeue runs without taking crit_.
NP_Lock2Unlocked ==
    /\ pc = "np_lock2"
    /\ pc' = "np_deq"
    /\ UNCHANGED <<fake_clock_, clock, socket_state, packets_, prev_packet_timestamp_,
                   ready_to_send_count_, crit_, op, args, end, packet, res, ret,
                   addr_out, ppc, histVars>>

\* Line 83: CritScope cs(&crit_) of the final dequeue.
NP_Lock2 ==
    /\ pc = "np_lock2"
    /\ crit_ = "free"
    /\ crit_' = "consumer"
    /\ pc' = "np_deq"
    /\ UNCHANGED <<fake_clock_, clock, socket_state, packets_, prev_packet_timestamp_,
                   ready_to_send_count_, op, args, end, packet, res, ret, addr_out, ppc,
                   histVars>>

\* Mutant of NP_Dequeue: the size test is off by one, a single packet stays.
NP_DequeueNeedsTwo ==
    /\ pc = "np_deq"
    /\ IF Len(packets_) > 1
       THEN /\ packet' = <<Front(packets_)>>
            /\ packets_' = EraseBegin(packets_)
       ELSE /\ packet' = <<>>
            /\ UNCHANGED packets_
    /\ returned' = IF packet' # <<>> THEN Append(returned, packet'[1].seq) ELSE returned
    /\ call' = [call EXCEPT !.dequeues = @ + 1,
                             !.arrivalsAtDeq = arrivals,
                             !.headAtDeq = IF packets_ = <<>> THEN <<>>
                                           ELSE <<packets_[1]>>]
    /\ crit_' = "free"
    /\ pc' = IF op = "NextPacket" THEN "done" ELSE "np_ret"
    /\ UNCHANGED <<fake_clock_, clock, socket_state, prev_packet_timestamp_,
                   ready_to_send_count_, op, args, end, res, ret, addr_out, ppc,
                   arrivals, ts_hist, max_accepted>>

\* Lines 84-89: take the front packet if there is one; the lock is released
\* as the function returns.
NP_Dequeue ==
    /\ pc = "np_deq"
    /\ IF Len(packets_) > 0
       THEN /\ packet' = <<Front(packets_)>>
            /\ packets_' = EraseBegin(packets_)
       ELSE /\ packet' = <<>>
            /\ UNCHANGED packets_
    /\ returned' = IF packet' # <<>> THEN Append(returned, packet'[1].seq) ELSE returned
    /\ call' = [call EXCEPT !.dequeues = @ + 1,
                             !.arrivalsAtDeq = arrivals,
                             !.headAtDeq = IF packets_ = <<>> THEN <<>>
                                           ELSE <<packets_[1]>>]
    /\ crit_' = "free"
    /\ pc' = IF op = "NextPacket" THEN "done" ELSE "np_ret"
    /\ UNCHANGED <<fake_clock_, clock, socket_state, prev_packet_timestamp_,
                   ready_to_send_count_, op, args, end, res, ret, addr_out, ppc,
                   arrivals, ts_hist, max_accepted>>

(***************************************************************************)
(* TestClient::AdvanceTime (testclient.cc:119-127). Both branches pump the *)
(* consumer thread's messages, which may run OnPacket synchronously, and   *)
(* move the clock: the fake clock by exactly ms = 1, the real clock by the *)
(* time ProcessMessages(1) took.                                           *)
(***************************************************************************)
\* Clock movements one AdvanceTime(1) can produce.
AdvanceSteps == IF fake_clock_ THEN {1} ELSE 1..MaxRealStep

\* Where the consumer continues after AdvanceTime returns.
AfterAdvance == IF op = "CheckConnState" THEN "ccs_loop" ELSE "np_loop"

AdvanceTime_Done ==
    /\ pc = "advance"
    /\ \E d \in AdvanceSteps : clock' = clock + d
    /\ pc' = AfterAdvance
    /\ UNCHANGED <<fake_clock_, socket_state, packets_, prev_packet_timestamp_,
                   ready_to_send_count_, crit_, op, args, end, packet, res, ret, addr_out,
                   ppc, histVars>>

(***************************************************************************)
(* TestClient::OnPacket (testclient.cc:141-146), run by context ctx: the   *)
(* producer thread, or the consumer thread inside AdvanceTime.             *)
(***************************************************************************)
\* Line 144: CritScope cs(&crit_).
OnPacket_Lock(ctx) ==
    /\ arrivals < MaxPackets
    /\ crit_ = "free"
    /\ crit_' = ctx
    /\ IF ctx = "consumer"
       THEN pc = "advance" /\ pc' = "adv_onpacket" /\ UNCHANGED ppc
       ELSE ppc = "idle" /\ ppc' = "locked" /\ UNCHANGED pc
    /\ UNCHANGED <<fake_clock_, clock, socket_state, packets_, prev_packet_timestamp_,
                   ready_to_send_count_, op, args, end, packet, res, ret, addr_out,
                   histVars>>

\* The consumer is inside NextPacket and has not yet done its final dequeue.
Waiting == pc \in {"np_loop", "np_lock1", "np_check", "advance", "adv_onpacket",
                   "np_lock2", "np_deq"} /\ op # "CheckConnState"

\* Line 145: packets_.push_back(MakeUnique<Packet>(...)); then the scope ends.
OnPacket_Push(ctx, remote_addr, buf, packet_timestamp) ==
    /\ crit_ = ctx
    /\ IF ctx = "consumer"
       THEN pc = "adv_onpacket" /\ pc' = "advance" /\ UNCHANGED ppc
       ELSE ppc = "locked" /\ ppc' = "idle" /\ UNCHANGED pc
    /\ packets_' = PushBack(packets_,
                            Packet(remote_addr, buf, Len(buf),
                                   [timestamp |-> packet_timestamp], arrivals + 1))
    /\ arrivals' = arrivals + 1
    /\ crit_' = "free"
    /\ call' = IF Waiting /\ call.delivered = <<>>
               THEN [call EXCEPT !.delivered =
                        <<[addr |-> remote_addr, buf |-> buf, size |-> Len(buf),
                           timestamp |-> packet_timestamp,
                           inTime |-> clock < end]>>]
               ELSE call
    /\ UNCHANGED <<fake_clock_, clock, socket_state, prev_packet_timestamp_,
                   ready_to_send_count_, op, args, end, packet, res, ret, addr_out,
                   returned, ts_hist, max_accepted>>

OnPacket ==
    \E ctx \in {"consumer", "producer"} :
        \/ OnPacket_Lock(ctx)
        \/ \E d \in Datagrams : OnPacket_Push(ctx, d[1], d[2], d[3])

(***************************************************************************)
(* TestClient::CheckNoPacket (testclient.cc:129-131).                      *)
(***************************************************************************)
\* Mutant of CheckNoPacket_Return: the comparison is inverted.
CheckNoPacket_ReturnInverted ==
    /\ pc = "np_ret"
    /\ op = "CheckNoPacket"
    /\ res' = (packet # <<>>)
    /\ pc' = "done"
    /\ UNCHANGED <<progVars, op, args, end, packet, ret, addr_out, ppc, histVars>>

\* Mutant of CheckNoPacket_Return: an unexpected packet's timestamp is run
\* through CheckTimestamp.
CheckNoPacket_ReturnStamps ==
    /\ pc = "np_ret"
    /\ op = "CheckNoPacket"
    /\ res' = (packet = <<>>)
    /\ IF packet # <<>>
       THEN CheckTimestampEffect(packet[1].packet_time.timestamp)
       ELSE UNCHANGED <<prev_packet_timestamp_, ts_hist, max_accepted>>
    /\ pc' = "done"
    /\ UNCHANGED <<fake_clock_, clock, socket_state, packets_, ready_to_send_count_,
                   crit_, op, args, end, packet, ret, addr_out, ppc, arrivals,
                   returned, call>>

\* Line 130: return NextPacket(kNoPacketTimeoutMs) == nullptr.
CheckNoPacket_Return ==
    /\ pc = "np_ret"
    /\ op = "CheckNoPacket"
    /\ res' = (packet = <<>>)
    /\ pc' = "done"
    /\ UNCHANGED <<progVars, op, args, end, packet, ret, addr_out, ppc, histVars>>

(***************************************************************************)
(* TestClient::CheckNextPacket (testclient.cc:92-103).                     *)
(***************************************************************************)
\* Mutant of PayloadMatches: only the sizes are compared.
PayloadMatchesSizeOnly(p, buf, size) == p.size = size

\* Line 97: the size and byte comparison (memcmp only if the sizes agree).
PayloadMatches(p, buf, size) == p.size = size /\ Memcmp(p.buf, buf, size) = 0

\* Mutant of CheckNextPacket_Return: *addr is written only when the check
\* succeeds.
CheckNextPacket_ReturnAddrOnMatch ==
    /\ pc = "np_ret"
    /\ op = "CheckNextPacket"
    /\ IF packet # <<>>
       THEN /\ IF PayloadMatches(packet[1], args.buf, args.size)
               THEN /\ res' = CheckTimestampResult(prev_packet_timestamp_,
                                                   packet[1].packet_time.timestamp)
                    /\ CheckTimestampEffect(packet[1].packet_time.timestamp)
               ELSE /\ res' = FALSE
                    /\ UNCHANGED <<prev_packet_timestamp_, ts_hist, max_accepted>>
            /\ addr_out' = IF args.want_addr /\ res' THEN <<packet[1].addr>>
                           ELSE addr_out
       ELSE /\ res' = FALSE
            /\ UNCHANGED <<prev_packet_timestamp_, ts_hist, max_accepted, addr_out>>
    /\ pc' = "done"
    /\ UNCHANGED <<fake_clock_, clock, socket_state, packets_, ready_to_send_count_,
                   crit_, op, args, end, packet, ret, ppc, arrivals, returned, call>>

\* Mutant of CheckNextPacket_Return: CheckTimestamp is the first operand of
\* the conjunction, so it runs for every dequeued packet.
CheckNextPacket_ReturnTimestampFirst ==
    /\ pc = "np_ret"
    /\ op = "CheckNextPacket"
    /\ IF packet # <<>>
       THEN /\ res' = (/\ CheckTimestampResult(prev_packet_timestamp_,
                                                packet[1].packet_time.timestamp)
                       /\ PayloadMatches(packet[1], args.buf, args.size))
            /\ CheckTimestampEffect(packet[1].packet_time.timestamp)
            /\ addr_out' = IF args.want_addr THEN <<packet[1].addr>> ELSE addr_out
       ELSE /\ res' = FALSE
            /\ UNCHANGED <<prev_packet_timestamp_, ts_hist, max_accepted, addr_out>>
    /\ pc' = "done"
    /\ UNCHANGED <<fake_clock_, clock, socket_state, packets_, ready_to_send_count_,
                   crit_, op, args, end, packet, ret, ppc, arrivals, returned, call>>

\* Lines 96-102: compare, check the timestamp, write *addr.
CheckNextPacket_Return ==
    /\ pc = "np_ret"
    /\ op = "CheckNextPacket"
    /\ IF packet # <<>>
       THEN /\ IF PayloadMatches(packet[1], args.buf, args.size)
               THEN /\ res' = CheckTimestampResult(prev_packet_timestamp_,
                                                   packet[1].packet_time.timestamp)
                    /\ CheckTimestampEffect(packet[1].packet_time.timestamp)
               ELSE /\ res' = FALSE
                    /\ UNCHANGED <<prev_packet_timestamp_, ts_hist, max_accepted>>
            /\ addr_out' = IF args.want_addr THEN <<packet[1].addr>> ELSE addr_out
       ELSE /\ res' = FALSE
            /\ UNCHANGED <<prev_packet_timestamp_, ts_hist, max_accepted, addr_out>>
    /\ pc' = "done"
    /\ UNCHANGED <<fake_clock_, clock, socket_state, packets_, ready_to_send_count_,
                   crit_, op, args, end, packet, ret, ppc, arrivals, returned, call>>

(***************************************************************************)
(* The call returns to the test: the consumer is idle again.               *)
(***************************************************************************)
Return ==
    /\ pc = "done"
    /\ pc' = "idle"
    /\ op' = "none"
    /\ args' = NoArgs
    /\ end' = 0
    /\ packet' = <<>>
    /\ res' = FALSE
    /\ ret' = 0
    /\ addr_out' = <<>>
    /\ call' = NoCall
    /\ UNCHANGED <<progVars, ppc, arrivals, returned, ts_hist, max_accepted>>

(***************************************************************************)
(* The packet path: a test thread receiving, checking and waiting while    *)
(* the socket delivers packets.                                            *)
(***************************************************************************)
Next ==
    \/ CallNextPacket
    \/ CallCheckNoPacket
    \/ CallCheckNextPacket
    \/ NP_While
    \/ NP_Lock1
    \/ NP_Check
    \/ AdvanceTime_Done
    \/ NP_Lock2
    \/ NP_Dequeue
    \/ CheckNoPacket_Return
    \/ CheckNextPacket_Return
    \/ Return
    \/ OnPacket

Spec == Init /\ [][Next]_vars


(***************************************************************************)
(* TestClient::CheckConnState (testclient.cc:38-45).                       *)
(***************************************************************************)
\* Line 40: int64_t end = TimeAfter(kTimeoutMs).
CallCheckConnState ==
    \E s \in SocketStates :
        /\ pc = "idle"
        /\ Fits(kTimeoutMs)
        /\ pc' = "ccs_loop"
        /\ op' = "CheckConnState"
        /\ args' = [NoArgs EXCEPT !.timeout_ms = kTimeoutMs, !.state = s]
        /\ end' = TimeAfter(kTimeoutMs)
        /\ packet' = <<>>
        /\ res' = FALSE
        /\ ret' = 0
        /\ addr_out' = <<>>
        /\ call' = NewCall
        /\ UNCHANGED <<progVars, ppc, arrivals, returned, ts_hist, max_accepted>>

\* Mutant of KeepPolling: the state is not looked at, only the time.
KeepPollingTimeOnly(current, wanted, e) == TimeRemains(e)

\* Line 41: the loop condition.
KeepPolling(current, wanted, e) == current # wanted /\ TimeRemains(e)

\* Lines 41-42: while (GetState() != state && TimeUntil(end) > 0) AdvanceTime(1).
CCS_While ==
    /\ pc = "ccs_loop"
    /\ IF KeepPolling(socket_state, args.state, end)
       THEN /\ pc' = "advance"
            /\ call' = [call EXCEPT !.advances = @ + 1, !.lastPoll = socket_state]
       ELSE /\ pc' = "ccs_ret"
            /\ call' = [call EXCEPT !.lastPoll = socket_state]
    /\ UNCHANGED <<progVars, op, args, end, packet, res, ret, addr_out, ppc,
                   arrivals, returned, ts_hist, max_accepted>>

\* Line 44: return (socket_->GetState() == state).
CCS_Return ==
    /\ pc = "ccs_ret"
    /\ res' = (socket_state = args.state)
    /\ pc' = "done"
    /\ UNCHANGED <<progVars, op, args, end, packet, ret, addr_out, ppc, histVars>>

\* The socket changes state while the consumer pumps its messages inside
\* AdvanceTime (the socket runs on the consumer's thread).
SocketStateChange ==
    /\ pc = "advance"
    /\ \E s \in SocketStates \ {socket_state} : socket_state' = s
    /\ UNCHANGED <<fake_clock_, clock, packets_, prev_packet_timestamp_,
                   ready_to_send_count_, crit_, consVars, ppc, histVars>>

\* Any socket state may be the one a test finds when it starts waiting.
InitConn ==
    /\ fake_clock_ \in BOOLEAN
    /\ clock = 0
    /\ socket_state \in SocketStates
    /\ packets_ = <<>>
    /\ prev_packet_timestamp_ = Unset
    /\ ready_to_send_count_ = 0
    /\ crit_ = "free"
    /\ pc = "idle"
    /\ op = "none"
    /\ args = NoArgs
    /\ end = 0
    /\ packet = <<>>
    /\ res = FALSE
    /\ ret = 0
    /\ addr_out = <<>>
    /\ ppc = "idle"
    /\ arrivals = 0
    /\ returned = <<>>
    /\ call = NoCall
    /\ ts_hist = <<>>
    /\ max_accepted = <<>>

NextConn ==
    \/ CallCheckConnState
    \/ CCS_While
    \/ AdvanceTime_Done
    \/ SocketStateChange
    \/ CCS_Return
    \/ Return

\* A test waiting for connection states.
SpecConn == InitConn /\ [][NextConn]_vars

(***************************************************************************)
(* TestClient::CheckTimestamp (testclient.cc:105-117) called on its own,   *)
(* over every int64_t argument of Timestamps.                              *)
(***************************************************************************)
CallCheckTimestamp ==
    \E t \in Timestamps :
        /\ pc = "idle"
        /\ pc' = "done"
        /\ op' = "CheckTimestamp"
        /\ args' = [NoArgs EXCEPT !.timestamp = t]
        /\ call' = NewCall
        /\ res' = CheckTimestampResult(prev_packet_timestamp_, t)
        /\ CheckTimestampEffect(t)
        /\ UNCHANGED <<fake_clock_, clock, socket_state, packets_, ready_to_send_count_,
                       crit_, end, packet, ret, addr_out, ppc, arrivals, returned>>

NextTs ==
    \/ CallCheckTimestamp
    \/ Return

\* A sequence of timestamp checks.
SpecTs == Init /\ [][NextTs]_vars


(***************************************************************************)
(* The send-path facade: TestClient::Send, SendTo (testclient.cc:47-56),   *)
(* GetError and SetOption (testclient.cc:133-139). Each is given as the    *)
(* socket calls it makes, in order; the method returns what the socket     *)
(* returned to the last of them.                                           *)
(***************************************************************************)
\* Mutant of SendCalls: a failed send is tried once more.
SendCallsRetry(buf, size) ==
    <<[fn |-> "Send", buf |-> buf, size |-> size, dest |-> "none",
       options |-> "default", opt |-> "none", value |-> 0],
      [fn |-> "Send", buf |-> buf, size |-> size, dest |-> "none",
       options |-> "default", opt |-> "none", value |-> 0]>>

\* Lines 48-49: rtc::PacketOptions options; socket_->Send(buf, size, options).
SendCalls(buf, size) ==
    <<[fn |-> "Send", buf |-> buf, size |-> size, dest |-> "none",
       options |-> "default", opt |-> "none", value |-> 0]>>

\* Lines 54-55: socket_->SendTo(buf, size, dest, options).
SendToCalls(buf, size, dest) ==
    <<[fn |-> "SendTo", buf |-> buf, size |-> size, dest |-> dest,
       options |-> "default", opt |-> "none", value |-> 0]>>

\* Line 134: socket_->GetError().
GetErrorCalls ==
    <<[fn |-> "GetError", buf |-> <<>>, size |-> 0, dest |-> "none",
       options |-> "none", opt |-> "none", value |-> 0]>>

\* Line 138: socket_->SetOption(opt, value).
SetOptionCalls(opt, value) ==
    <<[fn |-> "SetOption", buf |-> <<>>, size |-> 0, dest |-> "none",
       options |-> "none", opt |-> opt, value |-> value]>>

\* The method o with arguments a makes the socket calls `calls`; the socket
\* answers each with any result, and the method returns the last answer.
Forwarding(o, a, calls) ==
    /\ pc = "idle"
    /\ \E rs \in [1..Len(calls) -> SocketResults] :
           /\ ret' = rs[Len(calls)]
           /\ call' = [NewCall EXCEPT !.sockLog = calls, !.sockResults = rs]
    /\ pc' = "done"
    /\ op' = o
    /\ args' = a
    /\ UNCHANGED <<progVars, end, packet, res, addr_out, ppc, arrivals, returned,
                   ts_hist, max_accepted>>

Send ==
    \E b \in Payloads :
        Forwarding("Send", [NoArgs EXCEPT !.buf = b, !.size = Len(b)],
                   SendCalls(b, Len(b)))

SendTo ==
    \E b \in Payloads, d \in Dests :
        Forwarding("SendTo", [NoArgs EXCEPT !.buf = b, !.size = Len(b), !.dest = d],
                   SendToCalls(b, Len(b), d))

GetError == Forwarding("GetError", NoArgs, GetErrorCalls)

SetOption ==
    \E o \in SocketOptions, v \in {0, 1} :
        Forwarding("SetOption", [NoArgs EXCEPT !.opt = o, !.value = v],
                   SetOptionCalls(o, v))

(***************************************************************************)
(* TestClient::OnReadyToSend (testclient.cc:148-150), run by context ctx   *)
(* like OnPacket. It takes no lock.                                        *)
(***************************************************************************)
\* Line 149: ++ready_to_send_count_.
OnReadyToSend(ctx) ==
    /\ ready_to_send_count_ < MaxReady
    /\ IF ctx = "consumer" THEN pc = "advance" ELSE ppc = "idle"
    /\ ready_to_send_count_' = ready_to_send_count_ + 1
    /\ UNCHANGED <<fake_clock_, clock, socket_state, packets_, prev_packet_timestamp_,
                   crit_, consVars, ppc, histVars>>

OnReadyToSendAny == \E ctx \in {"consumer", "producer"} : OnReadyToSend(ctx)

(***************************************************************************)
(* The whole harness: every public method and both notifications, for a    *)
(* test that runs on a FakeClock. The socket delivers two of the datagrams *)
(* here.                                                                   *)
(***************************************************************************)
\* TestClient(socket, fake_clock) with a clock given.
InitAll == Init /\ fake_clock_

FewDatagrams == {<<"a1", <<1>>, 0>>, <<"a2", <<2>>, -1>>}

OnPacketFew ==
    \E ctx \in {"consumer", "producer"} :
        \/ OnPacket_Lock(ctx)
        \/ \E d \in FewDatagrams : OnPacket_Push(ctx, d[1], d[2], d[3])

NextAll ==
    \/ CallNextPacket
    \/ CallCheckNoPacket
    \/ CallCheckNextPacket
    \/ NP_While
    \/ NP_Lock1
    \/ NP_Check
    \/ AdvanceTime_Done
    \/ NP_Lock2
    \/ NP_Dequeue
    \/ CheckNoPacket_Return
    \/ CheckNextPacket_Return
    \/ CallCheckConnState
    \/ CCS_While
    \/ CCS_Return
    \/ SocketStateChange
    \/ Send
    \/ SendTo
    \/ GetError
    \/ SetOption
    \/ Return
    \/ OnPacketFew
    \/ OnReadyToSendAny

SpecAll == InitAll /\ [][NextAll]_vars

(***************************************************************************)
(* A test thread calling NextPacket(timeout_ms) while the socket delivers  *)
(* packets, with the scheduling the threads have: the consumer thread      *)
(* keeps running, and a context inside OnPacket finishes its push and      *)
(* releases crit_.                                                         *)
(***************************************************************************)
ConsumerStep ==
    \/ NP_While
    \/ NP_Lock1
    \/ NP_Check
    \/ AdvanceTime_Done
    \/ NP_Lock2
    \/ NP_Dequeue

NextWait ==
    \/ CallNextPacket
    \/ ConsumerStep
    \/ Return
    \/ OnPacket

OnPacketFinish ==
    \E ctx \in {"consumer", "producer"}, d \in Datagrams :
        OnPacket_Push(ctx, d[1], d[2], d[3])

SpecLive ==
    Init /\ [][NextWait]_vars /\ WF_vars(ConsumerStep) /\ WF_vars(OnPacketFinish)

(***************************************************************************)
(* Properties.                                                             *)
(***************************************************************************)
\* The consumer is inside a call of the NextPacket family.
InNextPacket == op \in {"NextPacket", "CheckNoPacket", "CheckNextPacket"}

\* The NextPacket part of the call has returned.
NextPacketReturned == InNextPacket /\ pc \in {"np_ret", "done"}

\* s is strictly increasing.
Increasing(s) == \A i \in 1..(Len(s) - 1) : s[i] < s[i + 1]

\* max(n, 0)
AtLeastZero(n) == IF n > 0 THEN n ELSE 0

\* C1: packets are dequeued in strict arrival order. The packets dequeued so
\* far came out in the order OnPacket enqueued them, and each of them is
\* older than every packet still in the inbox (so each result was the oldest
\* packet of the inbox when it was taken).
C1_Fifo ==
    /\ Increasing(returned)
    /\ \A i \in 1..Len(returned) : \A j \in 1..Len(packets_) :
           returned[i] < packets_[j].seq
    /\ Increasing([j \in 1..Len(packets_) |-> packets_[j].seq])

\* C1 witness: a call returned the older of two packets and left the newer.
C1_Witness ==
    /\ pc = "done"
    /\ op = "NextPacket"
    /\ packet # <<>>
    /\ packets_ # <<>>
    /\ packet[1].seq < packets_[1].seq

\* C2: eventual delivery. A NextPacket call that started on an empty inbox
\* and during which OnPacket delivered payload P from address A with
\* timestamp T before the deadline returns a packet with exactly P, A and T.
C2_Delivered ==
    (/\ pc = "done"
     /\ op = "NextPacket"
     /\ call.emptyAtCall
     /\ call.delivered # <<>>)
    => (call.delivered[1].inTime
        => /\ packet # <<>>
           /\ packet[1].buf = call.delivered[1].buf
           /\ packet[1].size = Len(call.delivered[1].buf)
           /\ packet[1].addr = call.delivered[1].addr
           /\ packet[1].packet_time.timestamp = call.delivered[1].timestamp)

\* C2 witness: a call waited on an empty inbox, a two-byte datagram arrived
\* before the deadline, and the call returned.
C2_Witness ==
    /\ pc = "done"
    /\ op = "NextPacket"
    /\ call.emptyAtCall
    /\ call.advances > 0
    /\ call.delivered # <<>>
    /\ call.delivered[1].inTime
    /\ Len(call.delivered[1].buf) = 2
    /\ packet # <<>>

\* C3: NextPacket with timeout_ms <= 0 never calls AdvanceTime, makes exactly
\* one dequeue attempt, and returns the head of the inbox as it is at that
\* attempt (nothing if it is empty).
C3_ZeroTimeout ==
    (InNextPacket /\ pc # "idle" /\ args.timeout_ms <= 0)
    => /\ call.advances = 0
       /\ pc \notin {"np_lock1", "np_check", "advance", "adv_onpacket"}
       /\ call.dequeues <= 1
       /\ (pc = "done" => call.dequeues = 1 /\ packet = call.headAtDeq)

\* C3 witness: NextPacket with a negative timeout returned a packet that was
\* already in the inbox.
C3_Witness ==
    /\ pc = "done"
    /\ op = "NextPacket"
    /\ args.timeout_ms < 0
    /\ packet # <<>>

\* C4: fast path. Once a loop iteration has seen a non-empty inbox the call
\* makes no further AdvanceTime step; a call with a positive timeout that
\* starts on a non-empty inbox returns a packet with no AdvanceTime step.
C4_FastPath ==
    /\ (InNextPacket /\ call.observed)
       => /\ call.advances = call.advAtObs
          /\ pc \in {"np_lock2", "np_deq", "np_ret", "done"}
    /\ (NextPacketReturned /\ args.timeout_ms > 0 /\ ~call.emptyAtCall)
       => /\ packet # <<>>
          /\ call.advances = 0

\* C4 witness: a packet arrived during the wait, the next iteration saw it
\* and the call returned it.
C4_Witness ==
    /\ pc = "done"
    /\ InNextPacket
    /\ call.observed
    /\ call.advances > 0
    /\ packet # <<>>

\* C5 (bound): a call makes at most max(timeout_ms, 0) AdvanceTime steps; on
\* the simulated clock, when the inbox was empty and no packet arrived, it
\* makes exactly that many and returns nothing.
C5_Bounded ==
    /\ (InNextPacket /\ pc # "idle") => call.advances <= AtLeastZero(args.timeout_ms)
    /\ (/\ NextPacketReturned
        /\ fake_clock_
        /\ call.emptyAtCall
        /\ call.arrivalsAtDeq = call.arrivalsAtCall)
       => /\ packet = <<>>
          /\ call.advances = AtLeastZero(args.timeout_ms)

\* C5: every NextPacket call terminates: the bound above holds and a call
\* that has started always reaches its return.
C5_Terminates ==
    /\ []C5_Bounded
    /\ ((InNextPacket /\ pc # "idle") ~> (pc = "done"))

\* C5 witness: on the simulated clock a call waited out its whole timeout
\* and returned nothing.
C5_Witness ==
    /\ pc = "done"
    /\ op = "NextPacket"
    /\ fake_clock_
    /\ args.timeout_ms = MaxTimeout
    /\ call.advances = MaxTimeout
    /\ packet = <<>>

\* C6: CheckNoPacket returns true iff the inbox is empty at its final
\* dequeue; in particular it returns true when the inbox was empty at the
\* call and no OnPacket came before that dequeue, and it makes no more than
\* kNoPacketTimeoutMs AdvanceTime steps.
C6_CheckNoPacket ==
    (pc = "done" /\ op = "CheckNoPacket")
    => /\ res = (call.headAtDeq = <<>>)
       /\ (call.emptyAtCall /\ call.arrivalsAtDeq = call.arrivalsAtCall) => res
       /\ call.dequeues = 1
       /\ call.advances <= kNoPacketTimeoutMs

\* C6 witness: nothing was sent, CheckNoPacket waited and returned true.
C6_Witness ==
    /\ pc = "done"
    /\ op = "CheckNoPacket"
    /\ call.emptyAtCall
    /\ call.arrivalsAtDeq = call.arrivalsAtCall
    /\ call.advances > 0
    /\ res

\* The timestamp check as section 4.3 words it, on watermark w and
\* timestamp t.
TimestampAccepted(w, t) == t # Unset /\ (w = Unset \/ t >= w)

\* C7: CheckNextPacket returns true iff NextPacket returned a packet, its
\* size is the expected size, its bytes are the expected bytes and the
\* timestamp check of its timestamp succeeds.
C7_CheckNextPacket ==
    (pc = "done" /\ op = "CheckNextPacket")
    => res = (IF packet = <<>> THEN FALSE
              ELSE /\ packet[1].size = args.size
                   /\ packet[1].buf = args.buf
                   /\ TimestampAccepted(call.prevAtCall,
                                        packet[1].packet_time.timestamp))

\* C7 witness: a packet of the expected size arrived but its bytes differ,
\* and CheckNextPacket returned false.
C7_Witness ==
    /\ pc = "done"
    /\ op = "CheckNextPacket"
    /\ packet # <<>>
    /\ packet[1].size = args.size
    /\ packet[1].buf # args.buf
    /\ ~res


\* A CheckTimestamp call has just returned.
CheckTimestampDone == pc = "done" /\ op = "CheckTimestamp"

\* The result and watermark rule of C8: false iff t is Unset or below a set
\* watermark; when true the watermark becomes t.
C8_ResultRule ==
    CheckTimestampDone
    => /\ res = TimestampAccepted(call.prevAtCall, args.timestamp)
       /\ res => prev_packet_timestamp_ = args.timestamp

\* C8 as stated: the result rule, and of any two consecutive calls whose
\* second timestamp is strictly less than the first, the second fails.
C8_AsStated ==
    /\ C8_ResultRule
    /\ (CheckTimestampDone /\ Len(ts_hist) = 2 /\ ts_hist[2] < ts_hist[1]) => ~res

\* C8 amended: the result rule, and of any two consecutive calls whose first
\* timestamp is not Unset and whose second is strictly less than the first,
\* the second fails.
C8_CheckTimestamp ==
    /\ C8_ResultRule
    /\ (/\ CheckTimestampDone
        /\ Len(ts_hist) = 2
        /\ ts_hist[1] # Unset
        /\ ts_hist[2] < ts_hist[1]) => ~res

\* C8 witness: the second of two consecutive calls had a smaller timestamp
\* than the first, which was set, and failed.
C8_Witness ==
    /\ CheckTimestampDone
    /\ Len(ts_hist) = 2
    /\ ts_hist[1] # Unset
    /\ ts_hist[2] # Unset
    /\ ts_hist[2] < ts_hist[1]
    /\ ~res

\* C9: accepted timestamps never decrease over the whole history of checks:
\* a timestamp that a check accepts is at least every timestamp accepted
\* before, so it is the largest accepted so far.
C9_NonDecreasing ==
    (CheckTimestampDone /\ res) => max_accepted = <<args.timestamp>>

\* C10: CheckConnState returns whether the socket reported the target state
\* by the deadline: true with no AdvanceTime step if it reports it at the
\* call, true iff its last poll saw the target, false only once the time is
\* used up; it advances only after a poll that saw another state with time
\* remaining, at most kTimeoutMs times.
C10_CheckConnState ==
    /\ (op = "CheckConnState" /\ pc = "advance")
       => /\ call.lastPoll # args.state
          /\ TimeUntil(end) > 0
    /\ (op = "CheckConnState" /\ pc # "idle") => call.advances <= kTimeoutMs
    /\ (op = "CheckConnState" /\ pc = "done")
       => /\ res = (call.lastPoll = args.state)
          /\ (call.stateAtCall = args.state => res /\ call.advances = 0)
          /\ (~res => TimeUntil(end) <= 0)

\* C10 witness: the socket reached the target state during the wait and
\* CheckConnState returned true before the deadline.
C10_Witness ==
    /\ op = "CheckConnState"
    /\ pc = "done"
    /\ call.stateAtCall # args.state
    /\ call.advances > 0
    /\ TimeUntil(end) > 0
    /\ res


\* The pass-through methods.
ForwardOps == {"Send", "SendTo", "GetError", "SetOption"}

\* C11 (result): a pass-through method that has returned made exactly one
\* socket call, the one of its own name with its own arguments and default
\* options, and returned that call's result unchanged.
C11_OneCall ==
    (pc = "done" /\ op \in ForwardOps)
    => /\ Len(call.sockLog) = 1
       /\ call.sockLog[1].fn = op
       /\ call.sockLog[1].buf = args.buf
       /\ call.sockLog[1].size = args.size
       /\ call.sockLog[1].dest = args.dest
       /\ call.sockLog[1].opt = args.opt
       /\ call.sockLog[1].value = args.value
       /\ (op \in {"Send", "SendTo"} => call.sockLog[1].options = "default")
       /\ ret = call.sockResults[1]

\* C11 (frame): the step of a pass-through method leaves the inbox, the
\* watermark and the send-ready counter as they were.
C11_Frame ==
    (pc = "idle" /\ op' \in ForwardOps)
    => UNCHANGED <<packets_, prev_packet_timestamp_, ready_to_send_count_>>

\* C11: Send, SendTo, GetError and SetOption are pure forwarding.
C11_Forwarding == []C11_OneCall /\ [][C11_Frame]_vars

\* C11 witness: Send returned the socket's negative error code while a
\* packet was waiting in the inbox.
C11_Witness ==
    /\ pc = "done"
    /\ op = "Send"
    /\ ret < 0
    /\ call.sockResults = <<ret>>
    /\ packets_ # <<>>


\* C12: the watermark is monotonic. Over a CheckTimestamp call, a watermark
\* that was set (not Unset) neither decreases nor returns to Unset, and a
\* failing check leaves the watermark as it was.
C12_WatermarkMonotonic ==
    CheckTimestampDone
    => /\ (call.prevAtCall # Unset
           => /\ prev_packet_timestamp_ >= call.prevAtCall
              /\ prev_packet_timestamp_ # Unset)
       /\ (~res => prev_packet_timestamp_ = call.prevAtCall)


\* A step of the consumer thread inside a method.
ConsumerMove ==
    \/ ConsumerStep
    \/ CheckNoPacket_Return
    \/ CheckNextPacket_Return
    \/ CCS_While
    \/ CCS_Return
    \/ \E d \in FewDatagrams : OnPacket_Push("consumer", d[1], d[2], d[3])

\* The producer thread leaves OnPacket.
ProducerMove == \E d \in FewDatagrams : OnPacket_Push("producer", d[1], d[2], d[3])

\* C13: the consumer holds crit_ only in the emptiness check, in the final
\* dequeue and inside an OnPacket that AdvanceTime delivers: never while it
\* starts or runs AdvanceTime, polls or calls the socket, or asks for crit_
\* (no nesting); the producer holds it only inside OnPacket. So no state is
\* a deadlock: a consumer inside a method can step, or waits for crit_
\* while the producer holds it and can release it.
C13_NoDeadlock ==
    /\ crit_ = "consumer" => pc \in {"np_check", "np_deq", "adv_onpacket"}
    /\ crit_ = "producer" <=> ppc = "locked"
    /\ pc \notin {"idle", "done"}
       => \/ ENABLED ConsumerMove
          \/ /\ pc \in {"np_lock1", "np_lock2"}
             /\ crit_ = "producer"
             /\ ENABLED ProducerMove

\* C13 witness: inside AdvanceTime, called by NextPacket with crit_ free, a
\* synchronous OnPacket has taken crit_.
C13_Witness ==
    /\ op = "NextPacket"
    /\ pc = "adv_onpacket"
    /\ crit_ = "consumer"
    /\ ppc = "idle"


\* The contexts that are at an access to packets_: the consumer at the
\* emptiness check (line 75) or at the head read and removal (lines 84-86),
\* either context at the push_back of OnPacket (line 145).
AtInbox ==
    (IF pc \in {"np_check", "np_deq", "adv_onpacket"} THEN {"consumer"} ELSE {})
    \cup (IF ppc = "locked" THEN {"producer"} ELSE {})

\* C14: a context that is at an access to packets_ holds crit_, so at most
\* one context is in the critical section, and every step that changes
\* packets_ is taken by the holder of crit_.
C14_AccessHolds == \A ctx \in AtInbox : crit_ = ctx

C14_ChangeHolds == packets_' # packets_ => crit_ \in AtInbox

C14_InboxLocked == []C14_AccessHolds /\ [][C14_ChangeHolds]_vars

\* C14 witness: the consumer is at the head removal with crit_ while the
\* producer, which delivered the packet, cannot enter OnPacket.
C14_Witness ==
    /\ pc = "np_deq"
    /\ crit_ = "consumer"
    /\ packets_ # <<>>
    /\ ~ENABLED OnPacket_Lock("producer")


\* The part of C15 that the code keeps: one notification adds one.
C15_CountsUp == ready_to_send_count_' = ready_to_send_count_ + 1

\* C15: every step that changes ready_to_send_count_ is taken while crit_
\* is held, and adds exactly one, so the counter never decreases.
C15_IncrementLocked ==
    ready_to_send_count_' # ready_to_send_count_
    => /\ crit_ # "free"
       /\ C15_CountsUp

C15_CounterGuarded == [][C15_IncrementLocked]_vars


\* C16: prev_packet_timestamp_ is -1 from construction until the first
\* CheckTimestamp, and the only step that changes it is the verification
\* at the end of CheckNextPacket: OnPacket, OnReadyToSend, NextPacket,
\* CheckNoPacket, CheckConnState, Send and SendTo leave it as it is.
C16_UnsetUntilChecked == ts_hist = <<>> => prev_packet_timestamp_ = Unset

C16_OnlyVerification ==
    prev_packet_timestamp_' # prev_packet_timestamp_
    => /\ op = "CheckNextPacket"
       /\ pc = "np_ret"
       /\ pc' = "done"

C16_WatermarkFrame == []C16_UnsetUntilChecked /\ [][C16_OnlyVerification]_vars

\* C16 witness: a CheckNextPacket has set the watermark, after packets and
\* a ready-to-send notification were delivered.
C16_Witness ==
    /\ op = "CheckNextPacket"
    /\ pc = "done"
    /\ prev_packet_timestamp_ # Unset
    /\ ready_to_send_count_ > 0
    /\ arrivals > 0


\* The arrival numbers of the packets in the inbox, head first.
InboxSeqs == [j \in 1..Len(packets_) |-> packets_[j].seq]

NextPacketOps == {"NextPacket", "CheckNextPacket", "CheckNoPacket"}

\* C17: conservation. The packets handed out so far followed by the inbox
\* are exactly the packets OnPacket enqueued, in order, each once; an
\* OnPacket that holds crit_ can always append; a call that has passed its
\* final dequeue has dequeued once.
C17_Ledger ==
    /\ returned \o InboxSeqs = [i \in 1..arrivals |-> i]
    /\ crit_ = "producer"
       => ENABLED (\E d \in Datagrams : OnPacket_Push("producer", d[1], d[2], d[3]))
    /\ (pc \in {"np_ret", "done"} /\ op \in NextPacketOps) => call.dequeues = 1

\* The final dequeue removes the head and returns it, or finds the inbox
\* empty, returns empty and removes nothing; OnPacket appends one packet;
\* no other step changes the inbox.
C17_Step ==
    /\ pc = "np_deq" /\ pc' # "np_deq"
       => IF packet' # <<>>
          THEN /\ packets_ # <<>>
               /\ packet' = <<packets_[1]>>
               /\ packets_' = Tail(packets_)
               /\ returned' = Append(returned, packets_[1].seq)
          ELSE /\ packets_ = <<>>
               /\ packets_' = packets_
               /\ returned' = returned
    /\ arrivals' # arrivals
       => /\ arrivals' = arrivals + 1
          /\ Len(packets_') = Len(packets_) + 1
          /\ SubSeq(packets_', 1, Len(packets_)) = packets_
          /\ returned' = returned
    /\ packets_' # packets_
       => (pc = "np_deq" /\ pc' # "np_deq") \/ arrivals' # arrivals

C17_Conservation == []C17_Ledger /\ [][C17_Step]_vars

\* C17 witness: two packets were enqueued, two calls returned one each, and
\* the inbox is empty again.
C17_Witness ==
    /\ pc = "done"
    /\ op = "NextPacket"
    /\ packet # <<>>
    /\ arrivals = 2
    /\ returned = <<1, 2>>
    /\ packets_ = <<>>


\* C18: a CheckNextPacket or CheckNoPacket that found a packet at its final
\* dequeue has taken that packet out of the inbox whatever it returns, and
\* CheckNextPacket, given an address to fill, has written the packet's
\* source address there whatever it returns; no later dequeue hands out a
\* packet that was handed out before.
C18_Consumed ==
    (pc = "done" /\ op \in {"CheckNextPacket", "CheckNoPacket"} /\ call.headAtDeq # <<>>)
    => /\ packet = call.headAtDeq
       /\ \A j \in 1..Len(packets_) : packets_[j].seq # packet[1].seq
       /\ \E i \in 1..Len(returned) : returned[i] = packet[1].seq
       /\ (op = "CheckNoPacket" => ~res)
       /\ (op = "CheckNextPacket" /\ args.want_addr) => addr_out = <<packet[1].addr>>
       /\ (op = "CheckNextPacket" /\ ~args.want_addr) => addr_out = <<>>

C18_NeverAgain ==
    (pc = "np_deq" /\ packet' # <<>>)
    => \A i \in 1..Len(returned) : returned[i] # packet'[1].seq

C18_FailedCheckConsumes == []C18_Consumed /\ [][C18_NeverAgain]_vars

\* C18 witness: CheckNextPacket returned false on a payload mismatch; the
\* packet is gone from the inbox and its address was written.
C18_Witness ==
    /\ pc = "done"
    /\ op = "CheckNextPacket"
    /\ ~res
    /\ packet # <<>>
    /\ ~PayloadMatches(packet[1], args.buf, args.size)
    /\ args.want_addr
    /\ addr_out = <<packet[1].addr>>
    /\ packets_ # <<>>


\* NextPacket gave CheckNextPacket nothing, or a packet whose size or bytes
\* are not the expected ones.
C19_Mismatch ==
    \/ packet = <<>>
    \/ packet[1].size # args.size
    \/ packet[1].buf # args.buf

\* C19: when CheckNextPacket gets no packet or a packet of another size or
\* with other bytes, it returns false, CheckTimestamp is not called and the
\* watermark is the one the call started with.
C19_Unstamped ==
    (pc = "done" /\ op = "CheckNextPacket" /\ C19_Mismatch)
    => /\ ~res
       /\ prev_packet_timestamp_ = call.prevAtCall

C19_NotInvoked ==
    (pc = "np_ret" /\ op = "CheckNextPacket" /\ C19_Mismatch)
    => UNCHANGED <<prev_packet_timestamp_, ts_hist, max_accepted>>

C19_TimestampLast == []C19_Unstamped /\ [][C19_NotInvoked]_vars

\* C19 witness: a packet of the wrong size, with a timestamp other than the
\* set watermark, was dequeued and the watermark is still the old one.
C19_Witness ==
    /\ pc = "done"
    /\ op = "CheckNextPacket"
    /\ packet # <<>>
    /\ packet[1].size # args.size
    /\ prev_packet_timestamp_ # Unset
    /\ packet[1].packet_time.timestamp # prev_packet_timestamp_
    /\ prev_packet_timestamp_ = call.prevAtCall


\* A NextPacket, alone or inside a check, has done its final dequeue.
C20_Dequeued == pc \in {"np_ret", "done"} /\ op \in NextPacketOps

\* C20: the result is empty only if the inbox was empty at the final
\* dequeue, that is, only if every packet enqueued up to then had been
\* handed out before; a packet that OnPacket enqueued on an empty inbox
\* during the call, before the final dequeue, is the result, whether it
\* came before the deadline or after it, and whether the loop saw it or
\* not.
C20_EmptyOnlyIfEmpty ==
    C20_Dequeued
    => /\ packet = call.headAtDeq
       /\ packet = <<>> => call.arrivalsAtDeq = Len(returned)
       /\ (call.emptyAtCall /\ call.delivered # <<>>)
          => /\ packet # <<>>
             /\ packet[1].addr = call.delivered[1].addr
             /\ packet[1].buf = call.delivered[1].buf
             /\ packet[1].packet_time.timestamp = call.delivered[1].timestamp

\* C20 witness: the packet came after the deadline, the loop never saw the
\* inbox non-empty, and the call returned the packet.
C20_Witness ==
    /\ pc = "done"
    /\ op = "NextPacket"
    /\ call.emptyAtCall
    /\ call.delivered # <<>>
    /\ ~call.delivered[1].inTime
    /\ ~call.observed
    /\ packet # <<>>

====
